---- MODULE Spec2Model ----
(***************************************************************************)
(* Phase-wise trailing-stop-loss engine (TSLManagerFixed) of               *)
(* microscalper-cloud, with the order executor and the price source as     *)
(* nondeterministic collaborators.                                         *)
(*                                                                         *)
(* Prices are integers in units of 1/Rupee of a rupee, so that 0.5 rupee   *)
(* and the mean of phase3_atr_period true ranges are both whole numbers.   *)
(* Time is in whole seconds; asyncio.sleep(n) returns after at least n     *)
(* seconds.  Coroutines interleave only at their suspension points (the    *)
(* sleeps and the order calls), as under one asyncio event loop.           *)
(***************************************************************************)
EXTENDS Integers, Sequences, FiniteSets, TLC

VARIABLES
    active_position,      \* engine: id of the managed Position, None if none
    is_running,           \* engine: loop-enable flag
    current_phase,        \* engine: "MICRO" or "ATR"
    price_history,        \* engine: sequence of [price, time, phase]
    entry_price,          \* engine
    highest_price,        \* engine
    current_trail_level,  \* engine
    spike_detected,       \* engine
    atr_value,            \* engine
    atr_calculated,       \* engine
    phase_start_time,     \* engine
    pos,                  \* the Position objects created so far, by id
    loops,                \* the _management_loop tasks created so far
    ext,                  \* host coroutines calling exit_position / emergency_exit
    orders,               \* every order handed to the order executor, in order
    now,                  \* the clock read by time.time()
    start_ret,            \* return value of the last start_management call
    exit_ret,             \* outcome of the last exit_position call that returned
    spike_ret,            \* return value of the last direct _detect_spike call
    config_missing,       \* a threshold key is absent from self.config
    direction,            \* host: Position.direction of the Positions it opens
    callback,             \* ManualTrigger: a callback is registered
    last_trigger_time,    \* ManualTrigger
    triggers,             \* the trader's clicks so far: [call, time]
    callbacks             \* the trigger_data passed to the callback, in order

engine == <<active_position, is_running, current_phase, price_history,
            entry_price, highest_price, current_trail_level, spike_detected,
            atr_value, atr_calculated, phase_start_time>>

vars == <<active_position, is_running, current_phase, price_history,
          entry_price, highest_price, current_trail_level, spike_detected,
          atr_value, atr_calculated, phase_start_time,
          pos, loops, ext, orders, now, start_ret, exit_ret, spike_ret,
          config_missing, direction, callback, last_trigger_time, triggers,
          callbacks>>

\* the state of the host's entry flow and of its ManualTrigger
host == <<direction, callback, last_trigger_time, triggers, callbacks>>

None == 0

\* ---------------------------------------------------------------- config
phase1_max_trail == 5
phase2_spike_window == 2
phase2_spike_multiplier == 3
phase2_min_spike_points == 3
phase3_atr_period == 14
phase3_atr_multiplier == 1
min_phase1_duration == 10
phase1_to_phase3_threshold_pct == 1
emergency_exit_threshold == 5
HistoryCap == 100
SleepTick == 1
SleepError == 5

Rupee == 2 * phase3_atr_period
min_profit_to_trail == Rupee \div 2

\* r rupees and h half-rupees
Px(r, h) == r * Rupee + h * (Rupee \div 2)

\* ManualTrigger.cooldown, in seconds
cooldown == 2

\* the hold-time cap TSLManager reads as self.config["max_hold_time"], in
\* seconds; MANAGEMENT_CONFIG carries no such key and TSLManagerFixed never
\* reads one
max_hold_time == 12

\* ---------------------------------------------------------------- bounds
MaxSessions == 2
MaxExt == 1
MaxTime == 2
MaxSamples == 6
MaxOrders == 2
MaxSessionsLong == 1
MaxTimeLong == 14
MaxSamplesLong == 16
MaxSpikeLen == 5
MaxSessionsMicro == 1
MaxTimeMicro == 5
MaxSamplesMicro == 7
MaxSessionsQuiet == 1
MaxTimeQuiet == 11
MaxSamplesQuiet == 13
MaxATRLen == 16
MaxSessionsScenario == 1
MaxTimeScenario == 3
MaxSamplesScenario == 5
MaxSessionsCap == 1
MaxTimeCap == 101
MaxSamplesCap == 101
MaxSessionsRestart == 2
MaxTimeRestart == 12
MaxSamplesRestart == 26
MaxOrdersRestart == 1
MaxTriggers == 4
MaxTimeTrigger == 6

EntryPrices == {Px(100, 0)}
Prices == {Px(90, 0), Px(101, 0), Px(102, 0)}
LongPrices == {0, Px(100, 0), Px(102, 0)}
MicroPrices == {Px(99, 0), Px(100, 1), Px(101, 0), Px(102, 0), Px(103, 0),
                Px(104, 0), Px(105, 0), Px(106, 0)}
QuietPrices == {Px(101, 1), Px(102, 1)}
ATRPrices == {Px(102, 0), Px(103, 0)}
SpikePrices == {Px(100, 0), Px(101, 0), Px(102, 0), Px(103, 0), Px(104, 0)}
ScenarioPrices == {Px(100, 0), Px(101, 0), Px(102, 0), Px(103, 1)}
RestartPrices == {0, Px(102, 0), Px(102, 1)}
CapPrices == {Px(105, 1), Px(106, 1)}

\* ---------------------------------------------------------------- helpers
Abs(x) == IF x < 0 THEN -x ELSE x

Last(s) == s[Len(s)]

RECURSIVE SumSeq(_)
SumSeq(s) == IF s = <<>> THEN 0 ELSE s[1] + SumSeq(Tail(s))

SeqMax(s) == CHOOSE x \in {s[i] : i \in 1..Len(s)} : \A j \in 1..Len(s) : s[j] <= x
SeqMin(s) == CHOOSE x \in {s[i] : i \in 1..Len(s)} : \A j \in 1..Len(s) : s[j] >= x

\* a cap that keeps the first HistoryCap points
RecordPriceKeepsOldest(hist, price, t, phase) ==
    LET h == Append(hist, [price |-> price, time |-> t, phase |-> phase])
    IN  IF Len(h) > HistoryCap
        THEN SubSeq(h, 1, HistoryCap)
        ELSE h

\* _record_price: append, then keep the last HistoryCap points
RecordPrice(hist, price, t, phase) ==
    LET h == Append(hist, [price |-> price, time |-> t, phase |-> phase])
    IN  IF Len(h) > HistoryCap
        THEN SubSeq(h, Len(h) - HistoryCap + 1, Len(h))
        ELSE h

\* the prices collected by the reversed scan of _detect_spike: newest first,
\* stopping at the first point older than the window
RecentPrices(hist, t) ==
    LET n == Len(hist)
        k == CHOOSE c \in 0..n :
                /\ \A i \in (n - c + 1)..n : t - hist[i].time <= phase2_spike_window
                /\ (c < n => t - hist[n - c].time > phase2_spike_window)
    IN  [j \in 1..k |-> hist[n - j + 1].price]

\* _detect_spike; avg_change > 0 and current_change > avg_change * multiplier,
\* with avg_change = sum / len cleared of its denominator
DetectSpike(hist, current_price, t) ==
    IF Len(hist) < 4 THEN FALSE
    ELSE LET recent == RecentPrices(hist, t)
             k == Len(recent)
         IN  IF k < phase2_min_spike_points THEN FALSE
             ELSE LET changes == [i \in 1..(k - 1) |-> Abs(recent[i + 1] - recent[i])]
                      total == SumSeq(changes)
                      current_change == Abs(current_price - recent[k])
                  IN  IF k - 1 = 0 THEN FALSE
                      ELSE /\ total > 0
                           /\ current_change * (k - 1) > total * phase2_spike_multiplier

\* no minimum time in Phase 1 at all
NeverTooEarly(t, phase_start) == FALSE

\* a minimum time that has to be exceeded, not merely reached
TooEarlyInclusive(t, phase_start) == t - phase_start <= min_phase1_duration

\* _should_switch_to_atr: phase_duration < min_duration
TooEarly(t, phase_start) == t - phase_start < min_phase1_duration

\* _should_switch_to_atr
ShouldSwitchToATR(hist, entry, t, phase_start) ==
    IF TooEarly(t, phase_start) THEN FALSE
    ELSE IF Len(hist) < 10 THEN FALSE
    ELSE LET micro == SelectSeq(hist, LAMBDA pp : pp.phase = "MICRO")
             phase1_prices == [i \in 1..Len(micro) |-> micro[i].price]
         IN  IF Len(phase1_prices) < 8 THEN FALSE
             ELSE LET recent == SubSeq(phase1_prices, Len(phase1_prices) - 7, Len(phase1_prices))
                      price_range == SeqMax(recent) - SeqMin(recent)
                  IN  price_range * 100 < entry * phase1_to_phase3_threshold_pct

\* an ATR computed as soon as atr_period samples exist
NotEnoughDataShort(n) == n < phase3_atr_period

\* _calculate_atr: len(self.price_history) < atr_period + 1
NotEnoughData(n) == n < phase3_atr_period + 1

\* a scan that starts one sample late: range(-atr_period + 1, 0)
TrueRangeCountShort(n) ==
    Cardinality({idx \in {n + i : i \in (1 - phase3_atr_period)..(0 - 1)} : idx > 0})

\* _calculate_atr: the number of true ranges collected; 0-based
\* idx = n + i for i in -atr_period..-1, kept when idx > 0
TrueRangeCount(n) ==
    Cardinality({idx \in {n + i : i \in (0 - phase3_atr_period)..(0 - 1)} : idx > 0})

\* _calculate_atr: [value, calculated] after the call
CalculateATR(hist, old_value, old_calculated) ==
    IF NotEnoughData(Len(hist))
    THEN [value |-> old_value, calculated |-> old_calculated]
    ELSE LET n == Len(hist)
             c == TrueRangeCount(n)
             \* high - low of the points at 0-based idx and idx - 1
             true_ranges == [j \in 1..c |->
                                Abs(hist[n - c + j].price - hist[n - c + j - 1].price)]
         IN  IF c > 0
             THEN [value |-> SumSeq(true_ranges) \div c,
                   calculated |-> TRUE]
             ELSE [value |-> old_value, calculated |-> old_calculated]

\* the trailing rules without their "only trail up" test
RaisesAlways(new_tsl, tsl) == TRUE

\* the "only trail up" test of _apply_micro_trailing and _apply_atr_trailing
Raises(new_tsl, tsl) == new_tsl > tsl

\* a stop locked at the ceiling itself
LockedAtMaxTrail(entry) == entry + phase1_max_trail * Rupee

\* _apply_micro_trailing: locked_tsl = entry_price + (max_trail - 1)
LockedTsl(entry) == entry + (phase1_max_trail - 1) * Rupee

\* a rung that puts the stop at the whole points reached
RungAtPointsUp(entry, points_up) == entry + points_up * Rupee

\* the tsl of a rung: entry_price + (points_up - 1)
RungTsl(entry, points_up) == entry + (points_up - 1) * Rupee

\* _apply_micro_trailing: [tsl, level] after the call
ApplyMicroTrailing(entry, tsl, level, current_price) ==
    LET profit == current_price - entry
        points_up == profit \div Rupee
        unchanged == [tsl |-> tsl, level |-> level]
    IN  IF profit < min_profit_to_trail THEN unchanged
        ELSE IF 1 <= points_up /\ points_up <= phase1_max_trail
             THEN LET new_tsl == RungTsl(entry, points_up)
                  IN  IF Raises(new_tsl, tsl)
                      THEN [tsl |-> new_tsl, level |-> points_up]
                      ELSE unchanged
        ELSE IF points_up > phase1_max_trail
             THEN LET locked_tsl == LockedTsl(entry)
                  IN  IF Raises(locked_tsl, tsl)
                      THEN [tsl |-> locked_tsl, level |-> level]
                      ELSE unchanged
        ELSE unchanged

\* an ATR computed afresh on every ATR tick
AlwaysNeedsATR(old_calculated) == TRUE

\* the test that guards _calculate_atr: not self.atr_calculated
NeedsATR(old_calculated) == ~ old_calculated

\* _apply_atr_trailing: [tsl, value, calculated] after the call
ApplyATRTrailing(hist, tsl, old_value, old_calculated, current_price) ==
    LET atr == IF NeedsATR(old_calculated)
               THEN CalculateATR(hist, old_value, old_calculated)
               ELSE [value |-> old_value, calculated |-> old_calculated]
        new_tsl == current_price - atr.value * phase3_atr_multiplier
    IN  [tsl |-> IF atr.value > 0 /\ Raises(new_tsl, tsl) THEN new_tsl ELSE tsl,
         value |-> atr.value,
         calculated |-> atr.calculated]

\* ---------------------------------------------------------------- one poll tick
\* The body of the while loop of _management_loop for a valid price, from the
\* price update to the first suspension: the values the engine fields take
\* and the exit the tick asks for ("none", "SPIKE", "TSL_HIT", "EMERGENCY").
\* the stop-hit test placed ahead of the spike test
StopFirst(spike, tsl_hit, emergency) ==
    IF tsl_hit THEN "TSL_HIT"
    ELSE IF spike THEN "SPIKE"
    ELSE IF emergency THEN "EMERGENCY"
    ELSE "none"

SpikeFirst(spike, tsl_hit, emergency) ==
    IF spike THEN "SPIKE"
    ELSE IF tsl_hit THEN "TSL_HIT"
    ELSE IF emergency THEN "EMERGENCY"
    ELSE "none"

\* a stop that fires only strictly below the stop level
TslHitStrict(current_price, tsl) == current_price < tsl

TslHit(current_price, tsl) == current_price <= tsl

\* a phase recomputed from the switch test on every tick
PhaseRecomputed(phase, switch) == IF switch THEN "ATR" ELSE "MICRO"

\* the phase after the trailing step: only a MICRO tick whose switch test
\* passes changes it
PhaseAfter(phase, switch) == IF phase = "MICRO" /\ switch THEN "ATR" ELSE phase

\* a high that follows the last price
LastPriceAsHigh(current_price, highest) == current_price

\* the update of highest_price
NewHigh(current_price, highest) ==
    IF current_price > highest THEN current_price ELSE highest

\* a spike test placed after the trailing step
SpikeAfterTrailing(base, trailed) == trailed

\* the fields a spike tick leaves behind: the spike test comes before the
\* trailing step of either phase
SpikeFrame(base, trailed) == base

TickResult(current_price) ==
    LET hist == RecordPrice(price_history, current_price, now, current_phase)
        high == NewHigh(current_price, highest_price)
        tsl0 == pos[active_position].tsl
        spike == DetectSpike(hist, current_price, now)
        micro == ApplyMicroTrailing(entry_price, tsl0, current_trail_level, current_price)
        switch == ShouldSwitchToATR(hist, entry_price, now, phase_start_time)
        atr == ApplyATRTrailing(hist, tsl0, atr_value, atr_calculated, current_price)
        base == [hist |-> hist, high |-> high, tsl |-> tsl0,
                 level |-> current_trail_level, phase |-> current_phase,
                 phase_start |-> phase_start_time, atr_value |-> atr_value,
                 atr_calculated |-> atr_calculated, spike |-> FALSE,
                 exit |-> "none", reason |-> "none"]
        trailed == IF current_phase = "MICRO"
                   THEN [base EXCEPT !.tsl = micro.tsl, !.level = micro.level,
                                     !.phase = PhaseAfter("MICRO", switch),
                                     !.phase_start = IF switch THEN now ELSE phase_start_time]
                   ELSE [base EXCEPT !.tsl = atr.tsl, !.atr_value = atr.value,
                                     !.phase = PhaseAfter("ATR", switch),
                                     !.atr_calculated = atr.calculated]
        emergency == (entry_price - current_price) * 100 >= emergency_exit_threshold * entry_price
        trigger == SpikeFirst(spike, TslHit(current_price, trailed.tsl), emergency)
    IN  IF trigger = "SPIKE"
        THEN [SpikeFrame(base, trailed) EXCEPT !.spike = TRUE, !.exit = "SPIKE",
                          !.reason = IF current_phase = "MICRO"
                                     THEN "SPIKE_EXIT_PHASE1" ELSE "SPIKE_EXIT_PHASE3"]
        ELSE [trailed EXCEPT !.exit = trigger, !.reason = trigger]

\* ---------------------------------------------------------------- orders
\* a limit priced off the tick's price instead of the session high
LimitAtCurrent(highest, current_price) == current_price * 995

\* price of the spike exit's limit order, times 1000: highest_price * 0.995
SpikeLimitPrice(highest, current_price) == highest * 995

\* an exit side that is always the sale of what was bought
AlwaysSell(d) == "SELL"

\* exit_side: "SELL" if position.direction in ["BUY", "CE"] else "BUY"
ExitSide(d) == IF d \in {"BUY", "CE"} THEN "SELL" ELSE "BUY"

LimitOrder(p, reason, price) ==
    [kind |-> "LIMIT", pos |-> p, reason |-> reason, price_x1000 |-> price,
     side |-> ExitSide(direction), status |-> "inflight"]

MarketOrder(p, reason) ==
    [kind |-> "MARKET", pos |-> p, reason |-> reason, price_x1000 |-> 0,
     side |-> ExitSide(direction), status |-> "inflight"]

\* an exit_position without its guard
AlwaysSomethingToExit == FALSE

\* the guard of exit_position: it returns at once when this holds
NothingToExit == active_position = None \/ ~ pos[active_position].is_active

\* a cleanup that resets the phase and leaves the engine running
CleanupLeavesRunning ==
    /\ current_phase' = "MICRO"
    /\ UNCHANGED <<active_position, is_running, price_history, entry_price,
                   highest_price, current_trail_level, spike_detected, atr_value,
                   atr_calculated, phase_start_time, pos>>

\* _cleanup_position: the engine fields it assigns (the Position object
\* itself is not written)
CleanupPosition ==
    /\ active_position' = None
    /\ is_running' = FALSE
    /\ current_phase' = "MICRO"
    /\ UNCHANGED <<price_history, entry_price, highest_price, current_trail_level,
                   spike_detected, atr_value, atr_calculated, phase_start_time, pos>>

\* ---------------------------------------------------------------- state
\* a Position whose stop starts one point below the entry price
NewPositionStopBelow(e) ==
    [entry_price |-> e, tsl |-> e - Rupee, phase |-> "MICRO", current_price |-> e,
     is_active |-> TRUE]

\* the Position start_management takes over, its tsl set to the entry price
NewPosition(e) ==
    [entry_price |-> e, tsl |-> e, phase |-> "MICRO", current_price |-> e,
     is_active |-> TRUE]

\* a _management_loop coroutine: where it is suspended, when its sleep ends,
\* which order it awaits
\* and the Position its last fetch-and-evaluate cycle worked on
NewLoop == [pc |-> "polling", wake |-> now, ord |-> 0, served |-> None]
Sleeping(seconds, p) == [pc |-> "polling", wake |-> now + seconds, ord |-> 0, served |-> p]
Awaiting(pc, o, p) == [pc |-> pc, wake |-> 0, ord |-> o, served |-> p]
DoneLoop == [pc |-> "done", wake |-> 0, ord |-> 0, served |-> None]

IdleCall == [pc |-> "idle", ord |-> 0]

\* ManualTrigger.__init__
TriggerIdle ==
    /\ callback = FALSE
    /\ last_trigger_time = 0
    /\ triggers = <<>>
    /\ callbacks = <<>>

Init ==
    /\ active_position = None
    /\ is_running = FALSE
    /\ current_phase = "MICRO"
    /\ price_history = <<>>
    /\ entry_price = 0
    /\ highest_price = 0
    /\ current_trail_level = 0
    /\ spike_detected = FALSE
    /\ atr_value = 0
    /\ atr_calculated = FALSE
    /\ phase_start_time = 0
    /\ pos = <<>>
    /\ loops = <<>>
    /\ ext = [x \in 1..MaxExt |-> IdleCall]
    /\ orders = <<>>
    /\ now = 0
    /\ start_ret = "none"
    /\ exit_ret = "none"
    /\ spike_ret = "none"
    /\ config_missing = FALSE
    /\ direction = "CE"
    /\ TriggerIdle

\* the engine constructed over a configuration that may lack a threshold key;
\* every read of self.config is a .get with the reference value as default
InitConfig ==
    /\ active_position = None
    /\ is_running = FALSE
    /\ current_phase = "MICRO"
    /\ price_history = <<>>
    /\ entry_price = 0
    /\ highest_price = 0
    /\ current_trail_level = 0
    /\ spike_detected = FALSE
    /\ atr_value = 0
    /\ atr_calculated = FALSE
    /\ phase_start_time = 0
    /\ pos = <<>>
    /\ loops = <<>>
    /\ ext = [x \in 1..MaxExt |-> IdleCall]
    /\ orders = <<>>
    /\ now = 0
    /\ start_ret = "none"
    /\ exit_ret = "none"
    /\ spike_ret = "none"
    /\ config_missing \in BOOLEAN
    /\ direction = "CE"
    /\ TriggerIdle

\* the option types the host's two entry buttons pass as Position.direction
Directions == {"CE", "PE"}

\* the side of every order of the entry flow
EntrySide == "BUY"

\* the engine of a host that trades calls or puts
InitSide ==
    /\ active_position = None
    /\ is_running = FALSE
    /\ current_phase = "MICRO"
    /\ price_history = <<>>
    /\ entry_price = 0
    /\ highest_price = 0
    /\ current_trail_level = 0
    /\ spike_detected = FALSE
    /\ atr_value = 0
    /\ atr_calculated = FALSE
    /\ phase_start_time = 0
    /\ pos = <<>>
    /\ loops = <<>>
    /\ ext = [x \in 1..MaxExt |-> IdleCall]
    /\ orders = <<>>
    /\ now = 0
    /\ start_ret = "none"
    /\ exit_ret = "none"
    /\ spike_ret = "none"
    /\ config_missing = FALSE
    /\ direction \in Directions
    /\ TriggerIdle

\* ---------------------------------------------------------------- start_management
AlreadyManaging == active_position # None

\* a start that resets the trail before it looks at active_position
StartRejectedAfterReset ==
    /\ start_ret' = "False"
    /\ pos' = [pos EXCEPT ![active_position].tsl = pos[active_position].entry_price]
    /\ price_history' = <<>>
    /\ UNCHANGED <<active_position, is_running, current_phase,
                   entry_price, highest_price, current_trail_level, spike_detected,
                   atr_value, atr_calculated, phase_start_time,
                   loops, ext, orders, now, exit_ret, spike_ret, config_missing, host>>

StartRejected ==
    /\ start_ret' = "False"
    /\ UNCHANGED <<active_position, is_running, current_phase, price_history,
                   entry_price, highest_price, current_trail_level, spike_detected,
                   atr_value, atr_calculated, phase_start_time,
                   pos, loops, ext, orders, now, exit_ret, spike_ret, config_missing, host>>

\* a start that appends the entry sample to the history it finds and keeps
\* a higher high
StartKeepsHistory(e) ==
    /\ pos' = Append(pos, NewPosition(e))
    /\ active_position' = Len(pos) + 1
    /\ is_running' = TRUE
    /\ current_phase' = "MICRO"
    /\ entry_price' = e
    /\ highest_price' = IF highest_price > e THEN highest_price ELSE e
    /\ price_history' = RecordPrice(price_history, e, now, "MICRO")
    /\ current_trail_level' = 0
    /\ spike_detected' = FALSE
    /\ atr_value' = 0
    /\ atr_calculated' = FALSE
    /\ phase_start_time' = now
    /\ loops' = Append(loops, NewLoop)
    /\ start_ret' = "True"
    /\ UNCHANGED <<ext, orders, now, exit_ret, spike_ret, config_missing, host>>

\* start_management on an idle engine: take the Position, reset the session
\* state, record the entry sample, create the loop task
StartAccepted(e) ==
    /\ pos' = Append(pos, NewPosition(e))
    /\ active_position' = Len(pos) + 1
    /\ is_running' = TRUE
    /\ current_phase' = "MICRO"
    /\ entry_price' = e
    /\ highest_price' = e
    /\ price_history' = RecordPrice(<<>>, e, now, "MICRO")
    /\ current_trail_level' = 0
    /\ spike_detected' = FALSE
    /\ atr_value' = 0
    /\ atr_calculated' = FALSE
    /\ phase_start_time' = now
    /\ loops' = Append(loops, NewLoop)
    /\ start_ret' = "True"
    /\ UNCHANGED <<ext, orders, now, exit_ret, spike_ret, config_missing, host>>

\* the host passes a freshly created Position with entry price e
StartManagement(e, max_sessions) ==
    IF AlreadyManaging
    THEN StartRejected
    ELSE Len(pos) < max_sessions /\ StartAccepted(e)

\* ---------------------------------------------------------------- _management_loop
Runnable(l) == loops[l].pc = "polling" /\ loops[l].wake <= now

LoopCondition == is_running /\ active_position # None

\* the while test fails: the coroutine returns
LoopEnd(l) ==
    /\ Runnable(l)
    /\ ~ LoopCondition
    /\ loops' = [loops EXCEPT ![l] = DoneLoop]
    /\ UNCHANGED <<active_position, is_running, current_phase, price_history,
                   entry_price, highest_price, current_trail_level, spike_detected,
                   atr_value, atr_calculated, phase_start_time,
                   pos, ext, orders, now, start_ret, exit_ret, spike_ret, config_missing, host>>

\* a price test that lets a zero price through
NegativePrice(current_price) == current_price < 0

\* the test of the fetched price: current_price <= 0
InvalidPrice(current_price) == current_price <= 0

\* one pass of the while body with the price the data provider returns
Tick(l, current_price, max_samples) ==
    /\ Runnable(l)
    /\ LoopCondition
    /\ ~ InvalidPrice(current_price) => Len(price_history) < max_samples
    /\ IF InvalidPrice(current_price)
       THEN /\ loops' = [loops EXCEPT ![l] = Sleeping(SleepTick, active_position)]
            /\ UNCHANGED <<active_position, is_running, current_phase, price_history,
                           entry_price, highest_price, current_trail_level,
                           spike_detected, atr_value, atr_calculated,
                           phase_start_time, pos, orders>>
       ELSE LET r == TickResult(current_price)
                ap == active_position
            IN  /\ price_history' = r.hist
                /\ highest_price' = r.high
                /\ current_phase' = r.phase
                /\ phase_start_time' = r.phase_start
                /\ current_trail_level' = r.level
                /\ spike_detected' = (spike_detected \/ r.spike)
                /\ atr_value' = r.atr_value
                /\ atr_calculated' = r.atr_calculated
                /\ pos' = [pos EXCEPT ![ap].current_price = current_price,
                                      ![ap].tsl = r.tsl,
                                      ![ap].phase = IF r.phase # current_phase
                                                    THEN r.phase ELSE @]
                /\ UNCHANGED <<active_position, is_running, entry_price>>
                /\ CASE r.exit = "none" ->
                          /\ loops' = [loops EXCEPT ![l] = Sleeping(SleepTick, active_position)]
                          /\ UNCHANGED orders
                     [] r.exit = "SPIKE" ->
                          \* _exit_at_highest_price up to its order call
                          /\ orders' = Append(orders,
                                 LimitOrder(ap, r.reason,
                                            SpikeLimitPrice(r.high, current_price)))
                          /\ loops' = [loops EXCEPT ![l] = Awaiting("awaitLimit", Len(orders) + 1, ap)]
                     [] OTHER ->
                          \* exit_position("TSL_HIT") or emergency_exit()
                          IF ~ pos[ap].is_active
                          THEN /\ loops' = [loops EXCEPT ![l] = DoneLoop]
                               /\ UNCHANGED orders
                          ELSE /\ orders' = Append(orders, MarketOrder(ap, r.reason))
                               /\ loops' = [loops EXCEPT ![l] = Awaiting("awaitMarket", Len(orders) + 1, ap)]
    /\ UNCHANGED <<ext, now, start_ret, exit_ret, spike_ret, config_missing, host>>

\* the limit order of _exit_at_highest_price returns to loop l
LimitReturns(l, success) ==
    /\ loops[l].pc = "awaitLimit"
    /\ LET o == loops[l].ord
           settled == [orders EXCEPT ![o].status = IF success THEN "ok" ELSE "fail"]
       IN  IF success
           THEN /\ orders' = settled
                /\ CleanupPosition
                /\ loops' = [loops EXCEPT ![l] = DoneLoop]
           ELSE \* exit_position(reason + "_MARKET")
                IF NothingToExit
                THEN /\ orders' = settled
                     /\ loops' = [loops EXCEPT ![l] = DoneLoop]
                     /\ UNCHANGED <<active_position, is_running, current_phase,
                                    price_history, entry_price, highest_price,
                                    current_trail_level, spike_detected, atr_value,
                                    atr_calculated, phase_start_time, pos>>
                ELSE /\ orders' = Append(settled,
                            MarketOrder(active_position, orders[o].reason \o "_MARKET"))
                     /\ loops' = [loops EXCEPT ![l] =
                                      Awaiting("awaitMarket", Len(orders) + 1, loops[l].served)]
                     /\ UNCHANGED <<active_position, is_running, current_phase,
                                    price_history, entry_price, highest_price,
                                    current_trail_level, spike_detected, atr_value,
                                    atr_calculated, phase_start_time, pos>>
    /\ UNCHANGED <<ext, now, start_ret, exit_ret, spike_ret, config_missing, host>>

\* the market order of exit_position returns to loop l; on success the
\* default of result.get("avg_price", self.active_position.current_price) is
\* evaluated, which raises when the engine holds no position: the loop's
\* except clause then sleeps and goes back to the while test
LoopMarketReturns(l, success) ==
    /\ loops[l].pc = "awaitMarket"
    /\ orders' = [orders EXCEPT ![loops[l].ord].status =
                                    IF success THEN "ok" ELSE "fail"]
    /\ IF success
       THEN IF active_position = None
            THEN /\ loops' = [loops EXCEPT ![l] = Sleeping(SleepError, loops[l].served)]
                 /\ UNCHANGED <<active_position, is_running, current_phase,
                                price_history, entry_price, highest_price,
                                current_trail_level, spike_detected, atr_value,
                                atr_calculated, phase_start_time, pos>>
            ELSE /\ CleanupPosition
                 /\ loops' = [loops EXCEPT ![l] = DoneLoop]
       ELSE /\ loops' = [loops EXCEPT ![l] = DoneLoop]
            /\ UNCHANGED <<active_position, is_running, current_phase,
                           price_history, entry_price, highest_price,
                           current_trail_level, spike_detected, atr_value,
                           atr_calculated, phase_start_time, pos>>
    /\ UNCHANGED <<ext, now, start_ret, exit_ret, spike_ret, config_missing, host>>

\* ---------------------------------------------------------------- host exit calls
\* exit_position("MANUAL_EXIT") or emergency_exit() awaited by the host
ExitCalled(x, reason, max_orders) ==
    /\ ext[x].pc = "idle"
    /\ Len(orders) < max_orders
    /\ IF NothingToExit
       THEN /\ exit_ret' = "None"
            /\ UNCHANGED <<ext, orders>>
       ELSE /\ orders' = Append(orders, MarketOrder(active_position, reason))
            /\ ext' = [ext EXCEPT ![x].pc = "awaitMarket", ![x].ord = Len(orders) + 1]
            /\ UNCHANGED exit_ret
    /\ UNCHANGED <<active_position, is_running, current_phase, price_history,
                   entry_price, highest_price, current_trail_level, spike_detected,
                   atr_value, atr_calculated, phase_start_time,
                   pos, loops, now, start_ret, spike_ret, config_missing, host>>

ExitMarketReturns(x, success) ==
    /\ ext[x].pc = "awaitMarket"
    /\ orders' = [orders EXCEPT ![ext[x].ord].status =
                                    IF success THEN "ok" ELSE "fail"]
    /\ ext' = [ext EXCEPT ![x] = IdleCall]
    /\ IF success
       THEN IF active_position = None
            THEN /\ exit_ret' = "AttributeError"
                 /\ UNCHANGED <<active_position, is_running, current_phase,
                                price_history, entry_price, highest_price,
                                current_trail_level, spike_detected, atr_value,
                                atr_calculated, phase_start_time, pos>>
            ELSE /\ CleanupPosition
                 /\ exit_ret' = "None"
       ELSE /\ exit_ret' = "None"
            /\ UNCHANGED <<active_position, is_running, current_phase,
                           price_history, entry_price, highest_price,
                           current_trail_level, spike_detected, atr_value,
                           atr_calculated, phase_start_time, pos>>
    /\ UNCHANGED <<loops, now, start_ret, spike_ret, config_missing, host>>

\* ---------------------------------------------------------------- time
\* a second passes; the event loop first runs every coroutine that is ready.
\* The clock starts with the first session: the engine uses differences of
\* time.time() only, never its value.
Advance(max_time) ==
    /\ now < max_time
    /\ loops # <<>>
    /\ \A l \in 1..Len(loops) : ~ Runnable(l)
    /\ now' = now + 1
    /\ UNCHANGED <<active_position, is_running, current_phase, price_history,
                   entry_price, highest_price, current_trail_level, spike_detected,
                   atr_value, atr_calculated, phase_start_time,
                   pos, loops, ext, orders, start_ret, exit_ret, spike_ret, config_missing, host>>

\* ---------------------------------------------------------------- _detect_spike called directly
\* a price history as the engine holds it when the call is made: the first
\* `old` samples recorded before the spike window opened, the others inside
\* it (the oldest of them exactly phase2_spike_window seconds ago), the last
\* one recorded at the time of the call
SpikeHistory(prices, old, t) ==
    [i \in 1..Len(prices) |->
        [price |-> prices[i],
         time |-> IF i <= old THEN 0
                  ELSE IF i < Len(prices) THEN t - phase2_spike_window ELSE t,
         phase |-> "MICRO"]]

InitSpike ==
    /\ active_position = None
    /\ is_running = FALSE
    /\ current_phase = "MICRO"
    /\ now = phase2_spike_window + 1
    /\ \E n \in 1..MaxSpikeLen : \E prices \in [1..n -> SpikePrices] : \E old \in 0..(n - 1) :
           price_history = SpikeHistory(prices, old, now)
    /\ entry_price = 0
    /\ highest_price = 0
    /\ current_trail_level = 0
    /\ spike_detected = FALSE
    /\ atr_value = 0
    /\ atr_calculated = FALSE
    /\ phase_start_time = 0
    /\ pos = <<>>
    /\ loops = <<>>
    /\ ext = [x \in 1..MaxExt |-> IdleCall]
    /\ orders = <<>>
    /\ start_ret = "none"
    /\ exit_ret = "none"
    /\ spike_ret = "none"
    /\ config_missing = FALSE
    /\ direction = "CE"
    /\ TriggerIdle

\* _detect_spike(current_price, current_time) with the price just recorded,
\* as _management_loop calls it
DetectSpikeCall ==
    /\ price_history # <<>>
    /\ spike_ret' = IF DetectSpike(price_history, Last(price_history).price, now)
                    THEN "True" ELSE "False"
    /\ UNCHANGED <<active_position, is_running, current_phase, price_history,
                   entry_price, highest_price, current_trail_level, spike_detected,
                   atr_value, atr_calculated, phase_start_time,
                   pos, loops, ext, orders, now, start_ret, exit_ret,
                   config_missing, host>>

\* ---------------------------------------------------------------- _apply_atr_trailing called directly
\* an engine in the ATR phase whose ATR is still to be computed, holding a
\* history that starts with the entry price; the stop is the one MICRO
\* trailing left under a high of 102
ATRHistory(prices) ==
    [i \in 1..(Cardinality(DOMAIN prices) + 1) |->
        [price |-> IF i = 1 THEN Px(100, 0) ELSE prices[i], time |-> i - 1,
         phase |-> IF i <= min_phase1_duration THEN "MICRO" ELSE "ATR"]]

InitATR ==
    /\ active_position = 1
    /\ is_running = TRUE
    /\ current_phase = "ATR"
    /\ \E n \in phase3_atr_period..MaxATRLen : \E prices \in [2..n -> ATRPrices] :
           /\ price_history = ATRHistory(prices)
           /\ now = n - 1
           /\ pos = <<[NewPosition(Px(100, 0)) EXCEPT !.tsl = Px(101, 0), !.phase = "ATR",
                                                       !.current_price = prices[n]]>>
    /\ entry_price = Px(100, 0)
    /\ highest_price = SeqMax([i \in 1..Len(price_history) |-> price_history[i].price])
    /\ current_trail_level = 2
    /\ spike_detected = FALSE
    /\ atr_value = 0
    /\ atr_calculated = FALSE
    /\ phase_start_time = min_phase1_duration
    /\ loops = <<>>
    /\ ext = [x \in 1..MaxExt |-> IdleCall]
    /\ orders = <<>>
    /\ start_ret = "True"
    /\ exit_ret = "none"
    /\ spike_ret = "none"
    /\ config_missing = FALSE
    /\ direction = "CE"
    /\ TriggerIdle

\* _apply_atr_trailing(current_price)
ATRTrailingCall(current_price) ==
    /\ active_position # None
    /\ LET r == ApplyATRTrailing(price_history, pos[active_position].tsl,
                                 atr_value, atr_calculated, current_price)
       IN  /\ pos' = [pos EXCEPT ![active_position].tsl = r.tsl]
           /\ atr_value' = r.value
           /\ atr_calculated' = r.calculated
    /\ UNCHANGED <<active_position, is_running, current_phase, price_history,
                   entry_price, highest_price, current_trail_level, spike_detected,
                   phase_start_time, loops, ext, orders, now,
                   start_ret, exit_ret, spike_ret, config_missing, host>>

\* ---------------------------------------------------------------- ManualTrigger
\* a ManualTrigger on an event loop whose clock has run for the cooldown
InitTrigger ==
    /\ active_position = None
    /\ is_running = FALSE
    /\ current_phase = "MICRO"
    /\ price_history = <<>>
    /\ entry_price = 0
    /\ highest_price = 0
    /\ current_trail_level = 0
    /\ spike_detected = FALSE
    /\ atr_value = 0
    /\ atr_calculated = FALSE
    /\ phase_start_time = 0
    /\ pos = <<>>
    /\ loops = <<>>
    /\ ext = [x \in 1..MaxExt |-> IdleCall]
    /\ orders = <<>>
    /\ now = cooldown
    /\ start_ret = "none"
    /\ exit_ret = "none"
    /\ spike_ret = "none"
    /\ config_missing = FALSE
    /\ direction = "CE"
    /\ TriggerIdle

\* register_callback
RegisterCallback ==
    /\ ~ callback
    /\ callback' = TRUE
    /\ UNCHANGED <<engine, pos, loops, ext, orders, now, start_ret, exit_ret,
                   spike_ret, config_missing, direction, last_trigger_time,
                   triggers, callbacks>>

\* _can_trigger: its return value for a call made at time t
CanTrigger(t, last) == ~ (t - last < cooldown)

\* a cooldown that every click restarts
LastTriggerAlways(t, last) == t

\* _can_trigger: last_trigger_time after the call made at time t
LastTriggerAfter(t, last) == IF CanTrigger(t, last) THEN t ELSE last

\* the direction buy_ce and buy_pe put into trigger_data
TriggerDirection(call) == IF call = "buy_ce" THEN "BUY" ELSE "SELL"

\* buy_ce / buy_pe at the time now
EntryTrigger(call) ==
    /\ Len(triggers) < MaxTriggers
    /\ triggers' = Append(triggers, [call |-> call, time |-> now])
    /\ last_trigger_time' = LastTriggerAfter(now, last_trigger_time)
    /\ callbacks' = IF CanTrigger(now, last_trigger_time) /\ callback
                    THEN Append(callbacks,
                                [action |-> "ENTRY", direction |-> TriggerDirection(call),
                                 reason |-> "MANUAL_TRIGGER", timestamp |-> now])
                    ELSE callbacks
    /\ UNCHANGED <<engine, pos, loops, ext, orders, now, start_ret, exit_ret,
                   spike_ret, config_missing, direction, callback>>

\* ManualTrigger.exit_position at the time now
ExitTrigger ==
    /\ Len(triggers) < MaxTriggers
    /\ triggers' = Append(triggers, [call |-> "exit_position", time |-> now])
    /\ callbacks' = IF callback
                    THEN Append(callbacks,
                                [action |-> "EXIT", direction |-> "none",
                                 reason |-> "MANUAL_EXIT", timestamp |-> now])
                    ELSE callbacks
    /\ UNCHANGED <<engine, pos, loops, ext, orders, now, start_ret, exit_ret,
                   spike_ret, config_missing, direction, callback, last_trigger_time>>

\* the event loop's clock moves on by a second
TriggerClock ==
    /\ now < MaxTimeTrigger
    /\ now' = now + 1
    /\ UNCHANGED <<engine, pos, loops, ext, orders, start_ret, exit_ret,
                   spike_ret, config_missing, host>>

\* ---------------------------------------------------------------- specifications
\* the trader's clicks on a ManualTrigger
NextTrigger ==
    \/ RegisterCallback
    \/ \E call \in {"buy_ce", "buy_pe"} : EntryTrigger(call)
    \/ ExitTrigger
    \/ TriggerClock

SpecTrigger == InitTrigger /\ [][NextTrigger]_vars

Next ==
    \/ \E e \in EntryPrices : StartManagement(e, MaxSessions)
    \/ \E l \in 1..Len(loops) : \E p \in Prices : Tick(l, p, MaxSamples)
    \/ \E l \in 1..Len(loops) : LoopEnd(l)
    \/ \E l \in 1..Len(loops) : \E ok \in BOOLEAN : LimitReturns(l, ok)
    \/ \E l \in 1..Len(loops) : \E ok \in BOOLEAN : LoopMarketReturns(l, ok)
    \/ \E x \in 1..MaxExt : \E reason \in {"MANUAL_EXIT", "EMERGENCY"} : ExitCalled(x, reason, MaxOrders)
    \/ \E x \in 1..MaxExt : \E ok \in BOOLEAN : ExitMarketReturns(x, ok)
    \/ Advance(MaxTime)

Spec == Init /\ [][Next]_vars

\* one session followed long enough to reach the ATR phase and its first ATR
\* computation, on a quiet price feed
NextLong ==
    \/ \E e \in EntryPrices :
          Len(pos) < MaxSessionsLong /\ StartManagement(e, MaxSessionsLong)
    \/ \E l \in 1..Len(loops) : \E p \in LongPrices : Tick(l, p, MaxSamplesLong)
    \/ \E l \in 1..Len(loops) : \E ok \in BOOLEAN : LoopMarketReturns(l, ok)
    \/ Advance(MaxTimeLong)

SpecLong == Init /\ [][NextLong]_vars

\* one session in its first seconds, on a feed that climbs through the rungs
NextMicro ==
    \/ \E e \in EntryPrices :
          Len(pos) < MaxSessionsMicro /\ StartManagement(e, MaxSessionsMicro)
    \/ \E l \in 1..Len(loops) : \E p \in MicroPrices : Tick(l, p, MaxSamplesMicro)
    \/ \E l \in 1..Len(loops) : \E ok \in BOOLEAN : LoopMarketReturns(l, ok)
    \/ Advance(MaxTimeMicro)

SpecMicro == Init /\ [][NextMicro]_vars

\* one session on a feed that moves by exactly 1% of the entry price or not
\* at all, followed past the minimum MICRO duration
NextQuiet ==
    \/ \E e \in EntryPrices :
          Len(pos) < MaxSessionsQuiet /\ StartManagement(e, MaxSessionsQuiet)
    \/ \E l \in 1..Len(loops) : \E p \in QuietPrices : Tick(l, p, MaxSamplesQuiet)
    \/ Advance(MaxTimeQuiet)

SpecQuiet == Init /\ [][NextQuiet]_vars

\* ATR trailing on its own, over every history of two prices
NextATR == \E p \in ATRPrices : ATRTrailingCall(p)

SpecATR == InitATR /\ [][NextATR]_vars

\* the spike test on its own, over every short history
NextSpike == DetectSpikeCall

SpecSpike == InitSpike /\ [][NextSpike]_vars

\* one session fed the four ticks of the reference scenario, in any order
NextScenario ==
    \/ \E e \in EntryPrices :
          Len(pos) < MaxSessionsScenario /\ StartManagement(e, MaxSessionsScenario)
    \/ \E l \in 1..Len(loops) : \E p \in ScenarioPrices : Tick(l, p, MaxSamplesScenario)
    \/ \E l \in 1..Len(loops) : \E ok \in BOOLEAN : LoopMarketReturns(l, ok)
    \/ Advance(MaxTimeScenario)

SpecScenario == Init /\ [][NextScenario]_vars

\* one session on a feed that moves by 1% of the entry price at every tick,
\* followed until the history has been full for some ticks
NextCap ==
    \/ \E e \in EntryPrices :
          Len(pos) < MaxSessionsCap /\ StartManagement(e, MaxSessionsCap)
    \/ \E l \in 1..Len(loops) : \E p \in CapPrices :
          /\ price_history # <<>> /\ p # Last(price_history).price
          /\ Tick(l, p, MaxSamplesCap)
    \/ Advance(MaxTimeCap)

SpecCap == Init /\ [][NextCap]_vars

\* a session ended by the host and followed by a second one, which the loop
\* of the first goes on polling next to its own; the feed may be down until
\* a session's first valid tick and stays flat while the engine is in MICRO
NextRestart ==
    \/ \E e \in EntryPrices : StartManagement(e, MaxSessionsRestart)
    \/ \E l \in 1..Len(loops) : \E p \in RestartPrices :
          /\ p = 0 => Len(price_history) = 1
          /\ p = Px(102, 1) => current_phase = "ATR"
          /\ Tick(l, p, MaxSamplesRestart)
    \/ \E l \in 1..Len(loops) : LoopEnd(l)
    \/ \E x \in 1..MaxExt : ExitCalled(x, "MANUAL_EXIT", MaxOrdersRestart)
    \/ \E x \in 1..MaxExt : \E ok \in BOOLEAN : ExitMarketReturns(x, ok)
    \/ Advance(MaxTimeRestart)

SpecRestart == Init /\ [][NextRestart]_vars

\* sessions on bought calls and on bought puts, ended by the host or by a
\* spike
SpecSide == InitSide /\ [][NextRestart]_vars

\* the first seconds of a session, over a complete and over an incomplete
\* configuration
SpecConfig == InitConfig /\ [][NextMicro]_vars

\* ---------------------------------------------------------------- properties
Positions == 1..Len(pos)
Orders == 1..Len(orders)

\* a step of Tick with a valid price: the only step that changes the history
\* without creating a Position
ValidTickStep == price_history' # price_history /\ Len(pos') = Len(pos)

TickPrice == Last(price_history').price

\* the spike test of the tick, on the history the tick has just extended
TickSpike == DetectSpike(price_history', TickPrice, now)

NewOrders == Len(orders') - Len(orders)

\* C1: a Position's tsl never decreases, on any tick of either phase,
\* including the MICRO->ATR switch tick and every ATR tick after it
C1_TslNeverDecreases ==
    [][\A p \in Positions : pos'[p].tsl >= pos[p].tsl]_vars

\* ATR trailing has raised the stop above the level MICRO trailing left
C1_Witness ==
    /\ active_position # None
    /\ current_phase = "ATR"
    /\ atr_calculated /\ atr_value > 0
    /\ pos[active_position].tsl > entry_price + Rupee

\* C2: the order executor never accepts two exit orders for one Position
C2_OneExitOrderPerPosition ==
    \A p \in Positions :
        Cardinality({i \in Orders : orders[i].pos = p /\ orders[i].status = "ok"}) <= 1

\* limit exit and market fallback of a spike exit both rejected for Position p
DoubleFailed(p) ==
    \E i, j \in Orders :
        /\ i < j
        /\ orders[i].pos = p /\ orders[i].kind = "LIMIT" /\ orders[i].status = "fail"
        /\ orders[j].pos = p /\ orders[j].kind = "MARKET" /\ orders[j].status = "fail"
        /\ orders[j].reason = orders[i].reason \o "_MARKET"

ExitFailed(p) ==
    \E i \in Orders :
        orders[i].pos = p /\ orders[i].kind = "MARKET" /\ orders[i].status = "fail"

\* what the host can read of a session that runs normally
LooksRunning(p) ==
    /\ active_position = p /\ is_running /\ pos[p].is_active
    /\ exit_ret \in {"none", "None"}

\* C4: after a failed exit the host can tell the session from a running one
C4_ExitFailureSurfaced ==
    \A p \in Positions : ExitFailed(p) => ~ LooksRunning(p)

\* C5: a Position with a confirmed exit order is inactive and released
C5_ConfirmedExitReleases ==
    \A i \in Orders :
        orders[i].status = "ok"
            => /\ ~ pos[orders[i].pos].is_active
               /\ active_position # orders[i].pos

\* C6: no two poll loops run fetch-and-evaluate cycles for the same Position
C6_OneLoopPerPosition ==
    \A l1, l2 \in 1..Len(loops) :
        (l1 # l2 /\ loops[l1].served # None) => loops[l1].served # loops[l2].served

\* C7: start_management on a managing engine returns False and changes
\* nothing; a Position and its loop are only ever created on an idle engine
C7_RejectedStartChangesNothing ==
    [][/\ (start_ret' = "False" /\ start_ret # "False")
            => /\ active_position # None
               /\ UNCHANGED <<engine, pos, loops, ext, orders, now, exit_ret>>
       /\ (Len(pos') > Len(pos) \/ Len(loops') > Len(loops))
            => active_position = None]_vars

C7_Witness ==
    /\ start_ret = "False"
    /\ active_position # None
    /\ Len(price_history) > 1
    /\ pos[active_position].tsl > entry_price

\* C8: a valid tick without a spike places a TSL_HIT market exit exactly when
\* the tick's price is at or below the tsl the tick has just trailed
C8_StopHitExactly ==
    [][(ValidTickStep /\ ~ TickSpike)
          => ((NewOrders = 1 /\ Last(orders').kind = "MARKET"
                             /\ Last(orders').reason = "TSL_HIT")
                <=> TickPrice <= pos'[active_position].tsl)]_vars

\* a stop hit at exactly the stop level, after MICRO trailing has raised it
C8_Witness ==
    /\ orders # <<>>
    /\ Last(orders).reason = "TSL_HIT" /\ Last(orders).status = "inflight"
    /\ active_position = Last(orders).pos
    /\ pos[active_position].current_price = pos[active_position].tsl
    /\ pos[active_position].tsl > entry_price

LossAtLeastThreshold(price) ==
    (entry_price - price) * 100 >= emergency_exit_threshold * entry_price

\* C9: a tick acts on one trigger only, spike before stop-hit before
\* emergency: with a spike and price <= tsl the one order is the spike limit
\* order, with price <= tsl and an emergency-size loss it is the TSL_HIT exit
C9_OneTriggerByPriority ==
    [][ValidTickStep
          => /\ NewOrders <= 1
             /\ (TickSpike /\ TickPrice <= pos'[active_position].tsl)
                   => (NewOrders = 1 /\ Last(orders').kind = "LIMIT")
             /\ (~ TickSpike /\ TickPrice <= pos'[active_position].tsl
                             /\ LossAtLeastThreshold(TickPrice))
                   => (NewOrders = 1 /\ Last(orders').reason = "TSL_HIT")]_vars

\* a spike limit order in flight from a tick whose price was at or below the tsl
C9_Witness ==
    /\ orders # <<>>
    /\ Last(orders).kind = "LIMIT" /\ Last(orders).status = "inflight"
    /\ active_position = Last(orders).pos
    /\ Last(price_history).price <= pos[active_position].tsl
    /\ LossAtLeastThreshold(Last(price_history).price)

FallbackReasons == {"SPIKE_EXIT_PHASE1_MARKET", "SPIKE_EXIT_PHASE3_MARKET"}

\* C10: the order of a spike tick is a limit order at highest_price * 0.995;
\* the market fallback is placed only in the step in which a limit order
\* fails; once a Position's limit order has succeeded no order is placed for it
C10_LimitThenMarketFallback ==
    [][/\ (ValidTickStep /\ TickSpike)
            => /\ NewOrders = 1
               /\ Last(orders').kind = "LIMIT"
               /\ Last(orders').price_x1000 = highest_price' * 995
       /\ (NewOrders = 1 /\ Last(orders').reason \in FallbackReasons)
            => \E i \in Orders :
                  /\ orders[i].kind = "LIMIT" /\ orders[i].status = "inflight"
                  /\ orders'[i].status = "fail"
       /\ \A i \in Orders :
            (orders[i].kind = "LIMIT" /\ orders[i].status = "inflight"
                                     /\ orders'[i].status = "ok")
                => (NewOrders = 0 /\ active_position' # orders[i].pos)
       /\ \A i \in Orders :
            (orders[i].kind = "LIMIT" /\ orders[i].status = "ok")
                => (NewOrders > 0 => Last(orders').pos # orders[i].pos)]_vars

\* a spike exit below the session high whose limit order failed and whose
\* market fallback is placed
C10_Witness ==
    \E i, j \in Orders :
        /\ i < j
        /\ orders[i].kind = "LIMIT" /\ orders[i].status = "fail"
        /\ orders[i].price_x1000 = highest_price * 995
        /\ highest_price > pos[orders[i].pos].current_price
        /\ orders[j].reason \in FallbackReasons /\ orders[j].pos = orders[i].pos

\* the samples of the spike window, oldest first
SpikeWindow == SelectSeq(price_history, LAMBDA pp : now - pp.time <= phase2_spike_window)

\* the absolute tick-to-tick changes inside the spike window, oldest first
WindowChanges ==
    [i \in 1..(Len(SpikeWindow) - 1) |->
        Abs(SpikeWindow[i + 1].price - SpikeWindow[i].price)]

\* the spike rule as stated: enough samples, a positive average change, and
\* the change of the most recent tick above the average times the multiplier
StatedSpike ==
    LET k == Len(SpikeWindow)
    IN  /\ k >= phase2_min_spike_points
        /\ SumSeq(WindowChanges) > 0
        /\ WindowChanges[k - 1] * (k - 1) > SumSeq(WindowChanges) * phase2_spike_multiplier

\* C11: _detect_spike returns true exactly when the spike window holds at
\* least phase2_min_spike_points samples, the average change over it is
\* positive and the most recent tick's change exceeds that average times
\* phase2_spike_multiplier
C11_SpikeExactlyOnLastTickChange ==
    spike_ret # "none" => (spike_ret = "True" <=> StatedSpike)

\* at least three samples in the window, equal non-zero earlier changes and a
\* final change of at least three times their average
OutlierAfterSteadyTicks ==
    LET k == Len(SpikeWindow)
    IN  /\ k >= phase2_min_spike_points
        /\ WindowChanges[1] > 0 /\ WindowChanges[1] <= Rupee
        /\ \A i \in 1..(k - 2) : WindowChanges[i] = WindowChanges[1]
        /\ WindowChanges[k - 1] >= phase2_spike_multiplier * WindowChanges[1]

\* C12: a window of three or more samples with small, constant earlier
\* changes and a final change of at least 3x their average is a spike
C12_OutlierIsSpike ==
    (spike_ret # "none" /\ OutlierAfterSteadyTicks) => spike_ret = "True"

\* every change inside the window is the same non-zero amount
EqualChanges ==
    /\ Len(SpikeWindow) >= 2
    /\ WindowChanges[1] > 0
    /\ \A i \in 1..(Len(SpikeWindow) - 1) : WindowChanges[i] = WindowChanges[1]

\* C13: a window whose changes are all equal and non-zero, alternating or
\* drifting, with any number of samples, is not a spike
C13_EqualChangesNoSpike ==
    (spike_ret # "none" /\ EqualChanges) => spike_ret = "False"

Max(a, b) == IF a >= b THEN a ELSE b
Min(a, b) == IF a <= b THEN a ELSE b

\* whole points of profit of a price: floor(price - entry)
PointsUp(price) == (price - entry_price) \div Rupee

\* the stated MICRO rule applied to one price
StatedMicroTsl(tsl, price) ==
    IF PointsUp(price) >= 1
    THEN Max(tsl, entry_price + (Min(PointsUp(price), phase1_max_trail) - 1) * Rupee)
    ELSE tsl

\* the reference path of the MICRO rule and the stops it is stated to yield
ReferencePath == [i \in 1..7 |-> Px(99 + i, 0)]
ReferenceTsl == <<Px(100, 0), Px(100, 0), Px(101, 0), Px(102, 0), Px(103, 0),
                  Px(104, 0), Px(104, 0)>>

OnReferencePath(hist) ==
    /\ Len(hist) <= Len(ReferencePath)
    /\ \A i \in 1..Len(hist) : hist[i].price = ReferencePath[i]

\* C14: every MICRO tick without a spike leaves the tsl at
\* max(previous tsl, entry + min(floor(p - entry), 5) - 1) when
\* floor(p - entry) >= 1 and unchanged otherwise; entry 100 followed by
\* 101..106 yields the stops 100, 100, 101, 102, 103, 104, 104
C14_MicroRule ==
    [][(ValidTickStep /\ current_phase = "MICRO" /\ ~ TickSpike)
          => /\ pos'[active_position].tsl
                   = StatedMicroTsl(pos[active_position].tsl, TickPrice)
             /\ OnReferencePath(price_history')
                   => pos'[active_position].tsl = ReferenceTsl[Len(price_history')]]_vars

\* the whole reference path has been walked and the stop is locked at 104
C14_Witness ==
    /\ active_position # None
    /\ Len(price_history) = Len(ReferencePath)
    /\ OnReferencePath(price_history)
    /\ pos[active_position].tsl = Px(104, 0)

\* the prices of the MICRO-phase samples of a history, oldest first
MicroPricesOf(hist) ==
    LET micro == SelectSeq(hist, LAMBDA pp : pp.phase = "MICRO")
    IN  [i \in 1..Len(micro) |-> micro[i].price]

\* max - min of the 8 most recent MICRO samples is below
\* entry_price x phase1_to_phase3_threshold (1%)
QuietRange(hist) ==
    LET prices == MicroPricesOf(hist)
        n == Len(prices)
    IN  /\ n >= 8
        /\ \A i, j \in (n - 7)..n :
              (prices[i] - prices[j]) * 100 < entry_price * phase1_to_phase3_threshold_pct

PhaseStep == current_phase = "MICRO" /\ current_phase' = "ATR"

\* C15: the phase goes from MICRO to ATR only on a tick at which
\* min_phase1_duration seconds have passed since MICRO began and the range of
\* the 8 most recent MICRO samples is below entry_price x threshold
C15_SwitchOnlyWhenLateAndQuiet ==
    [][/\ PhaseStep
            => /\ now - phase_start_time >= min_phase1_duration
               /\ QuietRange(price_history')
       /\ \A p \in Positions :
            (pos[p].phase = "MICRO" /\ pos'[p].phase = "ATR") => PhaseStep]_vars

\* a switch one second after the minimum duration was reached: at the tick
\* before, late enough and with 12 samples, the range was not yet quiet
C15_Witness ==
    /\ active_position # None
    /\ current_phase = "ATR"
    /\ phase_start_time = min_phase1_duration + 1
    /\ Len(price_history) = min_phase1_duration + 3
    /\ pos[active_position].phase = "ATR"

\* a valid MICRO tick without a spike at which the stated switch conditions
\* (a), (b) and (c) hold
StatedSwitchConditions ==
    /\ ValidTickStep /\ current_phase = "MICRO" /\ ~ TickSpike
    /\ now - phase_start_time >= min_phase1_duration
    /\ Len(MicroPricesOf(price_history')) >= 8
    /\ QuietRange(price_history')

\* C16 as stated: the three conditions alone make the tick switch to ATR
C16_SwitchWheneverLateAndQuiet ==
    [][StatedSwitchConditions => current_phase' = "ATR"]_vars

\* C16: a valid MICRO tick without a spike switches to ATR when the minimum
\* duration has passed, the history holds at least 10 samples, 8 or more of
\* them MICRO samples, and the range of the last 8 MICRO samples is quiet
C16_SwitchWhenLateQuietAndTenSamples ==
    [][(StatedSwitchConditions /\ Len(price_history') >= 10)
          => (current_phase' = "ATR" /\ pos'[active_position].phase = "ATR"
                                     /\ phase_start_time' = now)]_vars

\* a switch on the tick that recorded the tenth sample
C16_Witness ==
    /\ active_position # None
    /\ current_phase = "ATR"
    /\ phase_start_time = now
    /\ Len(price_history) = 10

\* C17: while a Position stays under management an ATR phase stays ATR, in
\* the engine and on the Position
C17_AtrIsTerminal ==
    [][/\ (active_position # None /\ active_position' = active_position
                                  /\ current_phase = "ATR")
            => current_phase' = "ATR"
       /\ \A p \in Positions : pos[p].phase = "ATR" => pos'[p].phase = "ATR"]_vars

\* ticks have been processed in the ATR phase
C17_Witness ==
    /\ active_position # None
    /\ current_phase = "ATR"
    /\ pos[active_position].phase = "ATR"
    /\ Len(SelectSeq(price_history, LAMBDA pp : pp.phase = "ATR")) >= 2

\* the mean of |price[i] - price[i-1]| over the last phase3_atr_period pairs
StatedATR(hist) ==
    LET n == Len(hist)
    IN  SumSeq([j \in 1..phase3_atr_period |->
                   Abs(hist[n - phase3_atr_period + j].price
                       - hist[n - phase3_atr_period + j - 1].price)])
            \div phase3_atr_period

\* a call of ATR trailing that computes the ATR sets it to the stated mean
ATRComputedAsStated ==
    (~ atr_calculated /\ atr_calculated')
        => (Len(price_history) >= phase3_atr_period + 1
            /\ atr_value' = StatedATR(price_history))

ATRTickStep == ValidTickStep /\ current_phase = "ATR" /\ ~ TickSpike

\* C19: an ATR tick with fewer than phase3_atr_period + 1 samples in the
\* history computes no ATR and leaves the tsl as MICRO trailing left it; the
\* first ATR tick with enough samples computes the ATR, and from then on the
\* ATR rule sets the tsl
C19_AtrWaitsForSamples ==
    [][ATRTickStep
          => /\ Len(price_history') < phase3_atr_period + 1
                   => /\ ~ atr_calculated'
                      /\ pos'[active_position].tsl = pos[active_position].tsl
             /\ Len(price_history') >= phase3_atr_period + 1
                   => /\ atr_calculated'
                      /\ ~ atr_calculated => atr_value' = StatedATR(price_history')
                      /\ atr_value' > 0
                           => pos'[active_position].tsl
                                 = Max(pos[active_position].tsl,
                                       TickPrice - atr_value' * phase3_atr_multiplier)]_vars

\* ATR ticks were processed before the history held enough samples, and the
\* tick that recorded sample phase3_atr_period + 1 moved the stop
C19_Witness ==
    /\ active_position # None
    /\ current_phase = "ATR"
    /\ Len(price_history) = phase3_atr_period + 1
    /\ price_history[phase3_atr_period].phase = "ATR"
    /\ atr_calculated
    /\ pos[active_position].tsl = Last(price_history).price - atr_value
    /\ pos[active_position].tsl > Px(101, 0)

\* a loop that is ready to poll a running session takes a step
PollStep(l) ==
    /\ loops[l].pc = "polling" /\ loops[l].wake <= now
    /\ is_running /\ active_position # None
    /\ loops'[l] # loops[l]

\* the poll recorded one sample with a positive price
RecordedValidSample ==
    /\ Len(price_history') = Len(price_history) + 1
    /\ Last(price_history').price > 0
    /\ pos'[active_position].current_price = Last(price_history').price

\* C20: a poll either records a sample with a positive price, or (the price
\* was not positive) changes no engine or Position field, places no order
\* and leaves the loop to poll again one interval later; no non-positive
\* price is ever recorded
C20_InvalidPollChangesNothing ==
    [][\A l \in 1..Len(loops) :
          PollStep(l)
             => \/ RecordedValidSample
                \/ /\ UNCHANGED <<engine, pos, orders>>
                   /\ loops'[l].pc = "polling"
                   /\ loops'[l].wake = now + SleepTick]_vars

\* a session that has seen only invalid polls so far and is still running
C20_Witness ==
    /\ active_position # None /\ is_running
    /\ Len(price_history) = 1
    /\ now >= 2
    /\ \E l \in 1..Len(loops) :
          loops[l].pc = "polling" /\ loops[l].served = active_position
    /\ pos[active_position].current_price = entry_price
    /\ orders = <<>>

\* the time the session began: the timestamp of the entry sample
SessionStart == price_history[1].time

\* C21: once the time since entry exceeds the maximum hold time, the next
\* valid tick places an exit order with reason TIME_EXIT, whatever the price
C21_HoldTimeForcesExit ==
    [][(ValidTickStep /\ now - SessionStart > max_hold_time)
          => (NewOrders = 1 /\ Last(orders').reason = "TIME_EXIT")]_vars

\* C22: a valid tick, not a spike, whose loss from entry is at least
\* emergency_exit_threshold percent places one market exit order with reason
\* EMERGENCY
C22_EmergencyTickExitsAsEmergency ==
    [][(ValidTickStep /\ ~ TickSpike /\ LossAtLeastThreshold(TickPrice))
          => /\ NewOrders = 1
             /\ Last(orders').kind = "MARKET"
             /\ Last(orders').reason = "EMERGENCY"]_vars

\* the samples of the reference scenario: the entry at 100, then the ticks
\* 100, 101, 102 and 103.5
ScenarioPath == <<Px(100, 0), Px(100, 0), Px(101, 0), Px(102, 0), Px(103, 1)>>

OnScenario(hist) ==
    /\ Len(hist) <= Len(ScenarioPath)
    /\ \A i \in 1..Len(hist) : hist[i].price = ScenarioPath[i]

\* C23: on the reference scenario the ticks 100, 101 and 102 place no order
\* and the tick 103.5 places the session's one exit order, a limit order at
\* 103.5 * 0.995; no market order is placed
C23_ScenarioEndsWithLimitExit ==
    [][(ValidTickStep /\ OnScenario(price_history'))
          => IF Len(price_history') < Len(ScenarioPath)
             THEN NewOrders = 0
             ELSE /\ NewOrders = 1
                  /\ Last(orders').kind = "LIMIT"
                  /\ Last(orders').price_x1000 = Px(103, 1) * 995]_vars

\* an exit order placed by a host call has been confirmed for Position p
ExternallyExited(p) ==
    \E i \in Orders :
        /\ orders[i].pos = p /\ orders[i].status = "ok"
        /\ orders[i].reason \in {"MANUAL_EXIT", "EMERGENCY"}

\* C24: once an exit_position call from outside the loop has succeeded for a
\* Position, no tick is processed for it any more: its fields keep their
\* values, no order is placed for it, the history and the high stay as they
\* are until another session starts, and a loop that wakes while the engine
\* is stopped ends
C24_NoTickAfterExternalExit ==
    [][/\ \A p \in Positions :
             ExternallyExited(p)
                => /\ pos'[p] = pos[p]
                   /\ NewOrders > 0 => Last(orders').pos # p
                   /\ active_position' \in {None, p}
                         => (price_history' = price_history /\ highest_price' = highest_price)
       /\ \A l \in 1..Len(loops) :
             (loops[l].pc = "polling" /\ ~ LoopCondition /\ loops'[l] # loops[l])
                => loops'[l].pc = "done"]_vars

\* a host exit confirmed while the loop slept between two ticks, and the loop
\* ended at its next wake-up without having placed an order
C24_Witness ==
    /\ Len(orders) = 1 /\ ExternallyExited(1)
    /\ active_position = None
    /\ Len(price_history) >= 2
    /\ Len(loops) = 1 /\ loops[1].pc = "done"

\* the prices of the samples of a history, in order
PricesOf(hist) == [i \in 1..Len(hist) |-> hist[i].price]

\* C25: highest_price never decreases while a Position is managed, and after
\* every valid tick it is the maximum of the entry price and the valid prices
\* polled so far
C25_HighestIsRunningMax ==
    [][/\ (active_position # None /\ active_position' = active_position)
             => highest_price' >= highest_price
       /\ ValidTickStep
             => /\ price_history'[1].price = entry_price
                /\ highest_price' = SeqMax(PricesOf(price_history'))]_vars

\* a session whose last tick lies below a high reached earlier, above entry
C25_Witness ==
    /\ active_position # None
    /\ Len(price_history) >= 3
    /\ highest_price > entry_price
    /\ Last(price_history).price < highest_price
    /\ Last(price_history).price > entry_price

\* C26: the history never holds more than 100 samples, its timestamps never
\* decrease, and each poll that records a sample puts it at the end while the
\* oldest one leaves once 100 are held, so the history is the most recent
\* min(n, 100) samples in the order they were recorded
C26_HistoryKeepsLastHundred ==
    /\ [](/\ Len(price_history) <= 100
          /\ \A i \in 1..(Len(price_history) - 1) :
                price_history[i].time <= price_history[i + 1].time)
    /\ [][\A l \in 1..Len(loops) :
             PollStep(l)
                => \/ UNCHANGED <<engine, pos, orders>>
                   \/ /\ Last(price_history').time = now
                      /\ Last(price_history').price = pos'[active_position].current_price
                      /\ price_history' = Append(IF Len(price_history) < 100
                                                 THEN price_history
                                                 ELSE Tail(price_history),
                                                 Last(price_history'))]_vars

\* a full history whose entry sample has been dropped
C26_Witness ==
    /\ Len(price_history) = 100
    /\ price_history[1].time > 0
    /\ Last(price_history).time = now

\* C27: every Position taken under management has exactly one protective
\* stop order, placed by start_management, with its trigger at or just below
\* the entry price
C27_ProtectiveStopPlacedAtStart ==
    \A p \in Positions :
        /\ Cardinality({i \in Orders : orders[i].pos = p /\ orders[i].kind = "SL"}) = 1
        /\ \A i \in Orders :
              (orders[i].pos = p /\ orders[i].kind = "SL")
                 => orders[i].price_x1000 <= pos[p].entry_price * 1000

\* C28: with a threshold missing from the configuration no start succeeds:
\* no Position is taken, no loop is created, no order is placed and the
\* engine is not managing
C28_StartFailsOnMissingThreshold ==
    config_missing
       => /\ start_ret # "True"
          /\ pos = <<>> /\ loops = <<>> /\ orders = <<>>
          /\ active_position = None /\ ~ is_running

\* C29: a tick that detects a spike, in either phase, applies no trailing
\* update and no phase switch: the Position's tsl and phase, the trail
\* level, the engine's phase and phase start and the ATR fields keep their
\* values, and the tick's one order is the spike limit order
C29_SpikeTickFreezesTrailing ==
    [][(ValidTickStep /\ TickSpike)
          => /\ pos'[active_position].tsl = pos[active_position].tsl
             /\ pos'[active_position].phase = pos[active_position].phase
             /\ UNCHANGED <<current_trail_level, current_phase, phase_start_time,
                            atr_value, atr_calculated>>
             /\ NewOrders = 1 /\ Last(orders').kind = "LIMIT"]_vars

\* a spike limit order in flight from a tick two points above entry, which
\* the MICRO rule would have answered by raising the tsl, with the tsl still
\* at the entry price
C29_Witness ==
    /\ orders # <<>>
    /\ Last(orders).kind = "LIMIT" /\ Last(orders).status = "inflight"
    /\ active_position = Last(orders).pos
    /\ spike_detected
    /\ Last(price_history).price = Px(102, 0)
    /\ pos[active_position].tsl = entry_price
    /\ current_trail_level = 0

\* C30: after every MICRO tick that is not a spike, current_trail_level is
\* the whole points the high stands above entry, at most phase1_max_trail
\* and at least 0
C30_TrailLevelFollowsHigh ==
    [][(ValidTickStep /\ current_phase = "MICRO" /\ ~ TickSpike)
          => current_trail_level' =
                Min(Max(PointsUp(highest_price'), 0), phase1_max_trail)]_vars

\* C29 in the ATR phase: a spike limit order in flight from a tick of the ATR
\* phase, with the ATR still not computed and the tsl where MICRO left it
C29_WitnessATR ==
    /\ orders # <<>>
    /\ Last(orders).kind = "LIMIT" /\ Last(orders).status = "inflight"
    /\ Last(orders).reason = "SPIKE_EXIT_PHASE3"
    /\ active_position = Last(orders).pos
    /\ current_phase = "ATR"
    /\ atr_value = 0
    /\ pos[active_position].tsl = Px(101, 0)

\* C31: a Position's tsl is never below its entry price, and a valid tick
\* without a spike whose price is at or below the entry price places the
\* TSL_HIT market exit on that tick and takes the loop out of polling
C31_TickAtOrBelowEntryExits ==
    /\ [](\A p \in Positions : pos[p].tsl >= pos[p].entry_price)
    /\ [][(ValidTickStep /\ ~ TickSpike /\ TickPrice <= entry_price)
            => /\ NewOrders = 1
               /\ Last(orders').kind = "MARKET"
               /\ Last(orders').reason = "TSL_HIT"
               /\ \E l \in 1..Len(loops) :
                     /\ loops[l].pc = "polling"
                     /\ loops'[l].pc = "awaitMarket"
                     /\ loops'[l].ord = Len(orders')]_vars

\* the first tick after start, at the entry price, has placed the exit
C31_Witness ==
    /\ Len(price_history) = 2
    /\ Last(price_history).price = entry_price
    /\ Len(orders) = 1
    /\ orders[1].reason = "TSL_HIT" /\ orders[1].status = "inflight"
    /\ pos[orders[1].pos].tsl = entry_price

\* C32: while the engine holds a Position under management, a poll loop is
\* alive: some loop is sleeping until its next tick or inside a tick
C32_ManagedPositionHasLiveLoop ==
    (active_position # None /\ is_running)
       => \E l \in 1..Len(loops) : loops[l].pc # "done"

\* the history a session that has just started gets from one loop polling at
\* the shortest interval: the first tick at once, then one tick a second
OneLoopHistory(prices) ==
    price_history \o [i \in 1..Len(prices) |->
                        [price |-> prices[i],
                         time |-> now + (i - 1) * SleepTick,
                         phase |-> "MICRO"]]

\* C33: for a session that has just started there is a sequence of valid
\* prices, polled by its one loop, on which _detect_spike, called on the tick
\* that recorded the last of them, returns true
C33_SpikeReachableWithOneLoop ==
    (active_position # None /\ Len(price_history) = 1)
       => \E n \in 1..MaxSpikeLen : \E prices \in [1..n -> SpikePrices] :
             DetectSpike(OneLoopHistory(prices), prices[n],
                         now + (n - 1) * SleepTick)

\* no session polled by one loop ever places the spike exit's limit order
OneLoopNeverSpikes ==
    /\ ~ spike_detected
    /\ \A i \in Orders : orders[i].kind # "LIMIT"

\* C34: within a session the ATR is computed at most once: once
\* atr_calculated is true, atr_value and the flag keep their values until the
\* next start, and after an ATR computed as 0 no tick of the ATR phase
\* changes the tsl
C34_AtrComputedOnce ==
    [][/\ (atr_calculated /\ Len(pos') = Len(pos))
             => (atr_value' = atr_value /\ atr_calculated')
       /\ (ValidTickStep /\ current_phase = "ATR" /\ atr_calculated /\ atr_value = 0)
             => pos'[active_position].tsl = pos[active_position].tsl]_vars

\* an ATR computed as 0 on a flat history, then a tick of the ATR phase that
\* moved the price and a later one, not a spike, that left the loop sleeping
C34_Witness ==
    /\ active_position # None
    /\ current_phase = "ATR"
    /\ atr_calculated /\ atr_value = 0
    /\ \E i \in 1..Len(price_history) :
          price_history[i].price = Px(102, 1) /\ price_history[i].phase = "ATR"
    /\ Last(price_history).price = Px(102, 0)
    /\ \E l \in 1..Len(loops) : loops[l].pc = "polling" /\ loops[l].wake > now
    /\ pos[active_position].tsl = Px(101, 0)

\* C35: the tsl of the managed Position is never above highest_price, and a
\* tick that raises the tsl leaves it strictly below the tick's price and
\* places no exit order
C35_TrailedStopBelowPrice ==
    /\ [](active_position # None => pos[active_position].tsl <= highest_price)
    /\ [][(ValidTickStep /\ pos'[active_position].tsl > pos[active_position].tsl)
            => /\ pos'[active_position].tsl < TickPrice
               /\ NewOrders = 0]_vars

\* an ATR tick has raised the tsl above the level MICRO locked it at, and
\* the loop sleeps until its next tick
C35_Witness ==
    /\ active_position # None
    /\ current_phase = "ATR" /\ atr_value > 0
    /\ pos[active_position].tsl > Px(101, 0)
    /\ pos[active_position].tsl < Last(price_history).price
    /\ orders = <<>>

\* C36: a start_management call on an engine whose earlier session has ended
\* succeeds, and the session it begins is clean: phase MICRO, tsl and
\* highest_price at the new entry price, the history holding the new entry
\* sample only, trail level 0, no ATR, no spike flag
C36_RestartIsClean ==
    [][/\ (active_position = None /\ start_ret' # start_ret) => start_ret' = "True"
       /\ (Len(pos') = Len(pos) + 1 /\ Len(pos) >= 1)
             => LET new == Len(pos')
                IN  /\ active_position = None
                    /\ start_ret' = "True"
                    /\ active_position' = new /\ is_running'
                    /\ current_phase' = "MICRO" /\ pos'[new].phase = "MICRO"
                    /\ pos'[new].tsl = pos'[new].entry_price
                    /\ entry_price' = pos'[new].entry_price
                    /\ highest_price' = pos'[new].entry_price
                    /\ price_history' = <<[price |-> pos'[new].entry_price,
                                           time |-> now, phase |-> "MICRO"]>>
                    /\ current_trail_level' = 0
                    /\ atr_value' = 0 /\ ~ atr_calculated'
                    /\ ~ spike_detected']_vars

\* a second session just started, after a first one that trailed its stop
\* up and ended through a confirmed exit
C36_Witness ==
    /\ Len(pos) = 2 /\ active_position = 2
    /\ Len(price_history) = 1
    /\ pos[1].tsl > pos[1].entry_price
    /\ \E i \in Orders : orders[i].pos = 1 /\ orders[i].status = "ok"
    /\ pos[2].current_price = pos[2].entry_price

\* C37: while no Position is under management, no order is placed and no
\* engine or Position field changes until the next start; an exit_position
\* or emergency_exit call made then returns at once, leaving the loops and
\* the pending calls as they are
C37_ExitWithoutPositionIsNoOp ==
    [][/\ (active_position = None /\ Len(pos') = Len(pos))
             => (NewOrders = 0 /\ UNCHANGED <<engine, pos>>)
       /\ (active_position = None /\ exit_ret' # exit_ret
                                   /\ \A x \in 1..MaxExt : ext[x].pc = "idle")
             => (exit_ret' = "None" /\ UNCHANGED <<engine, pos, orders, loops, ext>>)]_vars

\* an exit request made before any start has returned
C37_Witness ==
    /\ pos = <<>> /\ orders = <<>>
    /\ active_position = None
    /\ exit_ret = "None"

\* C38: every exit order has the side opposite to the entry side, that is,
\* it is a SELL, for Positions in calls and in puts alike
C38_ExitSellsWhatWasBought ==
    \A i \in Orders : orders[i].side # EntrySide /\ orders[i].side = "SELL"

\* the time of the last accepted entry trigger of a sequence of clicks, as
\* stated: an entry trigger is accepted when it comes at least 2 s after the
\* last accepted one, and nothing else moves that time
RECURSIVE StatedLastAccepted(_)
StatedLastAccepted(log) ==
    IF log = <<>> THEN 0
    ELSE LET before == StatedLastAccepted(SubSeq(log, 1, Len(log) - 1))
             click == Last(log)
         IN  IF click.call \in {"buy_ce", "buy_pe"} /\ click.time - before >= 2
             THEN click.time
             ELSE before

\* a step in which the trader clicks
TriggerStep == Len(triggers') = Len(triggers) + 1

\* C39: an entry trigger less than 2 s after the last accepted entry trigger
\* does not invoke the callback; one that comes 2 s or more after it invokes
\* the registered callback once, whatever was rejected in between; an exit
\* trigger always invokes the registered callback
C39_CooldownGatesEntryOnly ==
    [][TriggerStep
          => LET click == Last(triggers')
                 since == click.time - StatedLastAccepted(triggers)
             IN  IF click.call = "exit_position"
                 THEN callback
                         => /\ Len(callbacks') = Len(callbacks) + 1
                            /\ Last(callbacks').action = "EXIT"
                 ELSE /\ since < 2 => callbacks' = callbacks
                      /\ (since >= 2 /\ callback)
                            => /\ Len(callbacks') = Len(callbacks) + 1
                               /\ Last(callbacks').action = "ENTRY"
                               /\ Last(callbacks').timestamp = click.time]_vars

\* an entry accepted, one rejected a second later, one accepted a second
\* after that, and an exit passed on inside the cooldown
C39_Witness ==
    /\ Len(triggers) = 4 /\ Len(callbacks) = 3
    /\ triggers[2].call \in {"buy_ce", "buy_pe"}
    /\ triggers[2].time = triggers[1].time + 1
    /\ callbacks[1].action = "ENTRY" /\ callbacks[2].action = "ENTRY"
    /\ callbacks[2].timestamp = callbacks[1].timestamp + 2
    /\ callbacks[3].action = "EXIT"
    /\ callbacks[3].timestamp < callbacks[2].timestamp + 2

====
